---- MODULE Spec2Model ----
(***************************************************************************)
(* BLS signature helpers of main.go: GenerateKeyPair, GenerateSignature,   *)
(* AggregateSignatures, VerifySignature and VerifyAggregateSignature.      *)
(*                                                                         *)
(* The functions are stateless; the state of the model is one call: the    *)
(* function called, its arguments, and what it returned.  The arguments    *)
(* are drawn from bounded pools of well-formed and malformed strings.      *)
(*                                                                         *)
(* The pairing library is modelled algebraically.  G1, G2 and GT are the   *)
(* additive group Z_GroupOrder (GroupOrder prime), the pairing is          *)
(* multiplication mod GroupOrder (bilinear and non-degenerate), and        *)
(* hash-to-curve is injective on the digests of the model and never the    *)
(* identity.  A point is serialised as the fixed-width big-endian integer  *)
(* of its index; hex strings are sequences of one-character strings.       *)
(***************************************************************************)
EXTENDS Integers, Sequences, FiniteSets, TLC

VARIABLES pc, op, privKeyHex, pubKeyHex, sigHex, msg, sigHexes,
          aggregateSigHex, pubKeyHexes, ret

vars == <<pc, op, privKeyHex, pubKeyHex, sigHex, msg, sigHexes,
          aggregateSigHex, pubKeyHexes, ret>>

(***************************** bounds **************************************)
\* longest list handed to AggregateSignatures / VerifyAggregateSignature
MaxSigners == 3
\* widths in bytes of a serialised secret key, public key and signature,
\* scaled down from the 32, 48 and 96 bytes of the curve
BLSSecretKeyLength == 2
BLSPubkeyLength == 3
BLSSignatureLength == 6

(************************* library constants *******************************)
\* order of the (prime order) groups G1, G2, GT
GroupOrder == 7
\* index of the G1 generator: PublicKey() is sk * G1Gen
G1Gen == 3
\* width of the digest array, var msgBytes [32]byte
DigestLen == 32

Min(a, b) == IF a < b THEN a ELSE b

Scalars == 1 .. (GroupOrder - 1)
Points == 0 .. (GroupOrder - 1)

(****************************** hexutil ************************************)
HexChars == <<"0", "1", "2", "3", "4", "5", "6", "7",
              "8", "9", "a", "b", "c", "d", "e", "f">>

\* encoding/hex fromHexChar: value of a hex character, -1 when it is none
fromHexChar(c) ==
    CASE c = "0" -> 0 [] c = "1" -> 1 [] c = "2" -> 2 [] c = "3" -> 3
      [] c = "4" -> 4 [] c = "5" -> 5 [] c = "6" -> 6 [] c = "7" -> 7
      [] c = "8" -> 8 [] c = "9" -> 9
      [] c \in {"a", "A"} -> 10 [] c \in {"b", "B"} -> 11
      [] c \in {"c", "C"} -> 12 [] c \in {"d", "D"} -> 13
      [] c \in {"e", "E"} -> 14 [] c \in {"f", "F"} -> 15
      [] OTHER -> -1

\* hexutil.Encode: "0x" followed by two lower-case hex characters per byte
hexEncode(b) ==
    <<"0", "x">> \o [i \in 1 .. 2 * Len(b) |->
                        IF i % 2 = 1 THEN HexChars[(b[(i + 1) \div 2] \div 16) + 1]
                                     ELSE HexChars[(b[i \div 2] % 16) + 1]]

has0xPrefix(s) == Len(s) >= 2 /\ s[1] = "0" /\ s[2] \in {"x", "X"}

\* hexutil.Decode: [err, bytes]
hexDecode(s) ==
    IF Len(s) = 0 THEN [err |-> "empty hex string", bytes |-> <<>>]
    ELSE IF ~has0xPrefix(s)
      THEN [err |-> "hex string without 0x prefix", bytes |-> <<>>]
    ELSE IF \E i \in 3 .. Len(s) : fromHexChar(s[i]) = -1
      THEN [err |-> "invalid hex string", bytes |-> <<>>]
    ELSE IF (Len(s) - 2) % 2 = 1
      THEN [err |-> "hex string of odd length", bytes |-> <<>>]
    ELSE [err |-> "nil",
          bytes |-> [i \in 1 .. (Len(s) - 2) \div 2 |->
                       16 * fromHexChar(s[2 * i + 1]) + fromHexChar(s[2 * i + 2])]]

(************************ the pairing library ******************************)
\* Marshal of a key or point: fixed width, big-endian
Marshal(x, width) == [i \in 1 .. width |-> IF i = width THEN x ELSE 0]

\* Uncompress/Deserialize: the value of a byte string of the right width
\* that encodes an element of the group, -1 otherwise
Unmarshal(b, width) ==
    IF Len(b) # width THEN -1
    ELSE IF \E i \in 1 .. (width - 1) : b[i] # 0 THEN -1
    ELSE IF b[width] >= GroupOrder THEN -1
    ELSE b[width]

\* bls.SecretKeyFromBytes: [err, sk]; a zero key is rejected
SecretKeyFromBytes(b) ==
    IF Len(b) # BLSSecretKeyLength
      THEN [err |-> "secret key of the wrong length", sk |-> 0]
    ELSE IF Unmarshal(b, BLSSecretKeyLength) = -1
      THEN [err |-> "could not unmarshal bytes into secret key", sk |-> 0]
    ELSE IF Unmarshal(b, BLSSecretKeyLength) = 0
      THEN [err |-> "received secret key is zero", sk |-> 0]
    ELSE [err |-> "nil", sk |-> Unmarshal(b, BLSSecretKeyLength)]

\* bls.PublicKeyFromBytes: [err, pk]; the point at infinity is rejected
PublicKeyFromBytes(b) ==
    IF Len(b) # BLSPubkeyLength
      THEN [err |-> "public key of the wrong length", pk |-> 0]
    ELSE IF Unmarshal(b, BLSPubkeyLength) = -1
      THEN [err |-> "could not unmarshal bytes into public key", pk |-> 0]
    ELSE IF Unmarshal(b, BLSPubkeyLength) = 0
      THEN [err |-> "received an infinite public key", pk |-> 0]
    ELSE [err |-> "nil", pk |-> Unmarshal(b, BLSPubkeyLength)]

\* bls.SignatureFromBytes: [err, sig]; the point at infinity is accepted
\* (an aggregate may be infinite)
SignatureFromBytes(b) ==
    IF Len(b) # BLSSignatureLength
      THEN [err |-> "signature of the wrong length", sig |-> 0]
    ELSE IF Unmarshal(b, BLSSignatureLength) = -1
      THEN [err |-> "could not unmarshal bytes into signature", sig |-> 0]
    ELSE [err |-> "nil", sig |-> Unmarshal(b, BLSSignatureLength)]

\* sk.PublicKey(): sk * g1
PublicKey(sk) == (sk * G1Gen) % GroupOrder

\* the bilinear pairing e : G1 x G2 -> GT
Pairing(p, s) == (p * s) % GroupOrder

(*************************** messages **************************************)
Rep(c, n) == [i \in 1 .. n |-> c]

\* the messages of the model, as byte strings: "a", "", 32 x "a",
\* 31 x "a" + "b", "a\x00", 33 x "a", 32 x "a" + "b"
MsgSeq == << <<97>>,
             <<>>,
             Rep(97, DigestLen),
             Rep(97, DigestLen - 1) \o <<98>>,
             <<97, 0>>,
             Rep(97, DigestLen + 1),
             Rep(97, DigestLen) \o <<98>> >>

Messages == {MsgSeq[i] : i \in 1 .. Len(MsgSeq)}

\* copy(dst, src): the first min(len(dst), len(src)) elements of src over dst
copy(dst, src) ==
    [i \in 1 .. Len(dst) |-> IF i <= Min(Len(dst), Len(src)) THEN src[i] ELSE dst[i]]

\* a variant of msgBytes that keeps the last 32 bytes of a longer message
msgBytesTail(m) ==
    IF Len(m) <= DigestLen THEN copy(Rep(0, DigestLen), m)
    ELSE SubSeq(m, Len(m) - DigestLen + 1, Len(m))

\* var msgBytes [32]byte; copy(msgBytes[:], msg)
msgBytes(m) == copy(Rep(0, DigestLen), m)

\* the digests of the messages of the model
Digests == [i \in 1 .. Len(MsgSeq) |-> msgBytes(MsgSeq[i])]

\* hash-to-curve of a digest: a point of G2 other than the identity,
\* distinct for the distinct digests of the model
HashToG2(d) ==
    LET known == {i \in 1 .. Len(MsgSeq) : Digests[i] = d}
        first == IF known = {} THEN Len(MsgSeq) + 1
                 ELSE CHOOSE i \in known : \A j \in known : i <= j
    IN  1 + ((first - 1) % (GroupOrder - 1))

\* sk.Sign(digest): sk * H(digest)
Sign(sk, d) == (sk * HashToG2(d)) % GroupOrder

RECURSIVE SumPoints(_)
SumPoints(sigs) ==
    IF Len(sigs) = 0 THEN 0
    ELSE (sigs[1] + SumPoints(Tail(sigs))) % GroupOrder

\* the nil common.Signature bls.AggregateSignatures returns for no signatures
NilSignature == -1

\* a variant of blsAggregateSignatures that keeps the last signature
\* instead of adding it to the sum
blsAggregateLast(sigs) ==
    IF Len(sigs) = 0 THEN NilSignature ELSE sigs[Len(sigs)]

\* bls.AggregateSignatures: the sum of the points, nil for an empty list
blsAggregateSignatures(sigs) ==
    IF Len(sigs) = 0 THEN NilSignature ELSE SumPoints(sigs)

\* a variant of Verify that pairs the signature with the point of index 1
\* instead of the generator the public keys are multiples of
VerifyOtherGenerator(sig, pk, d) == Pairing(1, sig) = Pairing(pk, HashToG2(d))

\* sig.Verify(pubKey, digest): e(g1, sig) = e(pk, H(digest))
Verify(sig, pk, d) == Pairing(G1Gen, sig) = Pairing(pk, HashToG2(d))

\* bls.VerifySignature(sigBytes, digest, pubKey): [ok, err]
blsVerifySignature(sigBytes, d, pk) ==
    LET s == SignatureFromBytes(sigBytes)
    IN  IF s.err # "nil" THEN [ok |-> FALSE, err |-> s.err]
        ELSE [ok |-> Verify(s.sig, pk, d), err |-> "nil"]

RECURSIVE WeightedSum(_, _)
WeightedSum(r, x) ==
    IF Len(x) = 0 THEN 0
    ELSE (r[Len(x)] * x[Len(x)] + WeightedSum(r, SubSeq(x, 1, Len(x) - 1))) % GroupOrder

\* a variant of blsVerifyMultipleSignatures without the random
\* coefficients: it compares the plain sums
blsVerifyMultipleUnblinded(sigs, msgs, pubKeys) ==
    IF Len(sigs) = 0 \/ Len(pubKeys) = 0 THEN [ok |-> FALSE, err |-> "nil"]
    ELSE IF Len(sigs) # Len(pubKeys) \/ Len(sigs) # Len(msgs)
      THEN [ok |-> FALSE,
            err |-> "provided signatures, pubkeys and messages have differing lengths"]
    ELSE IF \E i \in 1 .. Len(sigs) : SignatureFromBytes(sigs[i]).err # "nil"
      THEN [ok |-> FALSE, err |-> "nil"]
    ELSE
      LET n == Len(sigs)
          lhs == [i \in 1 .. n |-> Pairing(G1Gen, SignatureFromBytes(sigs[i]).sig)]
          rhs == [i \in 1 .. n |-> Pairing(pubKeys[i], HashToG2(msgs[i]))]
      IN  [ok |-> WeightedSum(Rep(1, n), lhs) = WeightedSum(Rep(1, n), rhs),
           err |-> "nil"]

\* bls.VerifyMultipleSignatures(sigs, msgs, pubKeys): [ok, err].  No
\* signatures is (false, nil).  The batch check draws a random non-zero
\* coefficient r_i per triple and compares sum r_i * e(g1, sig_i) with
\* sum r_i * e(pk_i, H(msg_i)); it is true when that holds whatever the
\* coefficients are (a chance equality for particular coefficients has
\* negligible probability in the real group).
blsVerifyMultipleSignatures(sigs, msgs, pubKeys) ==
    IF Len(sigs) = 0 \/ Len(pubKeys) = 0 THEN [ok |-> FALSE, err |-> "nil"]
    ELSE IF Len(sigs) # Len(pubKeys) \/ Len(sigs) # Len(msgs)
      THEN [ok |-> FALSE,
            err |-> "provided signatures, pubkeys and messages have differing lengths"]
    ELSE IF \E i \in 1 .. Len(sigs) : SignatureFromBytes(sigs[i]).err # "nil"
      THEN [ok |-> FALSE, err |-> "nil"]
    ELSE
      LET n == Len(sigs)
          lhs == [i \in 1 .. n |-> Pairing(G1Gen, SignatureFromBytes(sigs[i]).sig)]
          rhs == [i \in 1 .. n |-> Pairing(pubKeys[i], HashToG2(msgs[i]))]
      IN  [ok |-> \A r \in [1 .. n -> Scalars] : WeightedSum(r, lhs) = WeightedSum(r, rhs),
           err |-> "nil"]

(************************* the five functions ******************************)
\* what a call returned: the string result (pub: the second string of
\* GenerateKeyPair), the boolean result, the error ("nil" for none), and
\* whether the call panicked instead of returning
Returned(str, ok, err) ==
    [str |-> str, pub |-> <<>>, ok |-> ok, err |-> err, panic |-> FALSE]

Panicked ==
    [str |-> <<>>, pub |-> <<>>, ok |-> FALSE,
     err |-> "invalid memory address or nil pointer dereference", panic |-> TRUE]

ErrInvalidMsgLength == "error: message must be less than 32 bytes"

\* GenerateKeyPair, rnd the scalar bls.RandKey draws (0: RandKey fails)
GenerateKeyPair(rnd) ==
    IF rnd = 0 THEN Returned(<<>>, FALSE, "failed to generate key pair")
    ELSE [Returned(hexEncode(Marshal(rnd, BLSSecretKeyLength)), FALSE, "nil")
            EXCEPT !.pub = hexEncode(Marshal(PublicKey(rnd), BLSPubkeyLength))]

GenerateSignature(privHex, m) ==
    LET skBytes == hexDecode(privHex)
        sk == SecretKeyFromBytes(skBytes.bytes)
    IN  IF skBytes.err # "nil"
          THEN Returned(<<>>, FALSE, "failed to decode secret key hex to bytes")
        ELSE IF sk.err # "nil"
          THEN Returned(<<>>, FALSE, "failed to convert secret key hex to common.SecretKey")
        ELSE Returned(hexEncode(Marshal(Sign(sk.sk, msgBytes(m)), BLSSignatureLength)),
                      FALSE, "nil")

\* one turn of the loop of AggregateSignatures: [err, sig]
parseSignature(hex) ==
    LET sigBytes == hexDecode(hex)
        sig == SignatureFromBytes(sigBytes.bytes)
    IN  IF sigBytes.err # "nil"
          THEN [err |-> "failed to decode signature hex to bytes", sig |-> 0]
        ELSE IF sig.err # "nil"
          THEN [err |-> "failed to convert signature bytes to common.Signature", sig |-> 0]
        ELSE [err |-> "nil", sig |-> sig.sig]

AggregateSignatures(hexes) ==
    LET bad == {i \in 1 .. Len(hexes) : parseSignature(hexes[i]).err # "nil"}
        sigs == [i \in 1 .. Len(hexes) |-> parseSignature(hexes[i]).sig]
        aggSig == blsAggregateSignatures(sigs)
    IN  IF bad # {}
          THEN Returned(<<>>, FALSE,
                        parseSignature(hexes[CHOOSE i \in bad : \A j \in bad : i <= j]).err)
        ELSE IF aggSig = NilSignature THEN Panicked
        ELSE Returned(hexEncode(Marshal(aggSig, BLSSignatureLength)), FALSE, "nil")

\* a variant of VerifySignature that rejects a message of 32 bytes too
VerifySignatureOffByOne(pkHex, sHex, m) ==
    LET sigBytes == hexDecode(sHex)
        pubKeyBytes == hexDecode(pkHex)
        pubKey == PublicKeyFromBytes(pubKeyBytes.bytes)
        res == blsVerifySignature(sigBytes.bytes, msgBytes(m), pubKey.pk)
    IN  IF Len(m) >= 32 THEN Returned(<<>>, FALSE, ErrInvalidMsgLength)
        ELSE IF sigBytes.err # "nil"
          THEN Returned(<<>>, FALSE, "failed to decode signature hex to bytes")
        ELSE IF pubKeyBytes.err # "nil"
          THEN Returned(<<>>, FALSE, "failed to decode public key hex to bytes")
        ELSE IF pubKey.err # "nil"
          THEN Returned(<<>>, FALSE,
                        "failed to convert public key bytes to common.PublicKey")
        ELSE Returned(<<>>, res.ok, res.err)

VerifySignature(pkHex, sHex, m) ==
    LET sigBytes == hexDecode(sHex)
        pubKeyBytes == hexDecode(pkHex)
        pubKey == PublicKeyFromBytes(pubKeyBytes.bytes)
        res == blsVerifySignature(sigBytes.bytes, msgBytes(m), pubKey.pk)
    IN  IF Len(m) > 32 THEN Returned(<<>>, FALSE, ErrInvalidMsgLength)
        ELSE IF sigBytes.err # "nil"
          THEN Returned(<<>>, FALSE, "failed to decode signature hex to bytes")
        ELSE IF pubKeyBytes.err # "nil"
          THEN Returned(<<>>, FALSE, "failed to decode public key hex to bytes")
        ELSE IF pubKey.err # "nil"
          THEN Returned(<<>>, FALSE,
                        "failed to convert public key bytes to common.PublicKey")
        ELSE Returned(<<>>, res.ok, res.err)

\* one turn of the first loop of VerifyAggregateSignature: [err, pk, sig]
parseTurn(pkHex, aggHex) ==
    LET pubKeyBytes == hexDecode(pkHex)
        pubKey == PublicKeyFromBytes(pubKeyBytes.bytes)
        sig == parseSignature(aggHex)
    IN  IF pubKeyBytes.err # "nil"
          THEN [err |-> "failed to decode public key hex to bytes", pk |-> 0, sig |-> 0]
        ELSE IF pubKey.err # "nil"
          THEN [err |-> "failed to convert public key bytes to common.PublicKey",
                pk |-> 0, sig |-> 0]
        ELSE IF sig.err # "nil" THEN [err |-> sig.err, pk |-> 0, sig |-> 0]
        ELSE [err |-> "nil", pk |-> pubKey.pk, sig |-> sig.sig]

\* a variant of VerifyAggregateSignature that leaves out the copy of the
\* message into the digests, which stay zero
VerifyAggregateZeroDigest(aggHex, m, pkHexes) ==
    LET n == Len(pkHexes)
        bad == {i \in 1 .. n : parseTurn(pkHexes[i], aggHex).err # "nil"}
        xMsgs == [i \in 1 .. n |-> Rep(0, DigestLen)]
        xPKs == [i \in 1 .. n |-> parseTurn(pkHexes[i], aggHex).pk]
        sigs == [i \in 1 .. n |-> parseTurn(pkHexes[i], aggHex).sig]
        xSigsBytes == [i \in 1 .. n |-> Marshal(sigs[i], BLSSignatureLength)]
        res == blsVerifyMultipleSignatures(xSigsBytes, xMsgs, xPKs)
    IN  IF bad # {}
          THEN Returned(<<>>, FALSE,
                        parseTurn(pkHexes[CHOOSE i \in bad : \A j \in bad : i <= j],
                                  aggHex).err)
        ELSE Returned(<<>>, res.ok, res.err)

VerifyAggregateSignature(aggHex, m, pkHexes) ==
    LET n == Len(pkHexes)
        bad == {i \in 1 .. n : parseTurn(pkHexes[i], aggHex).err # "nil"}
        xMsgs == [i \in 1 .. n |-> msgBytes(m)]
        xPKs == [i \in 1 .. n |-> parseTurn(pkHexes[i], aggHex).pk]
        sigs == [i \in 1 .. n |-> parseTurn(pkHexes[i], aggHex).sig]
        xSigsBytes == [i \in 1 .. n |-> Marshal(sigs[i], BLSSignatureLength)]
        res == blsVerifyMultipleSignatures(xSigsBytes, xMsgs, xPKs)
    IN  IF bad # {}
          THEN Returned(<<>>, FALSE,
                        parseTurn(pkHexes[CHOOSE i \in bad : \A j \in bad : i <= j],
                                  aggHex).err)
        ELSE Returned(<<>>, res.ok, res.err)

(************************ the arguments drawn ******************************)
\* rnd values whose key pairs go into key lists: two small keys and the
\* negative of the first (their signatures sum to the point at infinity)
ListKeys == {1, 2, GroupOrder - 1}

\* lists of at most MaxSigners elements of S
SeqsUpTo(S) == UNION {[1 .. n -> S] : n \in 0 .. MaxSigners}

\* a well-formed string with its last character dropped (odd length),
\* with its prefix dropped, with a character that is no hex digit
OddLength(h) == SubSeq(h, 1, Len(h) - 1)
NoPrefix(h) == SubSeq(h, 3, Len(h))
BadDigit(h) == SubSeq(h, 1, Len(h) - 1) \o <<"g">>

PrivKeyHexes ==
    {GenerateKeyPair(k).str : k \in Scalars}
      \cup {<<>>,
            NoPrefix(GenerateKeyPair(1).str),
            BadDigit(GenerateKeyPair(1).str),
            hexEncode(Marshal(0, BLSSecretKeyLength)),
            hexEncode(Marshal(1, BLSSecretKeyLength - 1))}

BadPubKeyHexes ==
    {OddLength(GenerateKeyPair(1).pub),
     hexEncode(Marshal(0, BLSPubkeyLength))}

PubKeyHexes ==
    {GenerateKeyPair(k).pub : k \in Scalars}
      \cup BadPubKeyHexes
      \cup {<<>>, hexEncode(Marshal(GroupOrder, BLSPubkeyLength))}

ListPubKeyHexes == {GenerateKeyPair(k).pub : k \in ListKeys} \cup BadPubKeyHexes

\* every point of G2 serialised, the infinite one included
PointHexes == {hexEncode(Marshal(p, BLSSignatureLength)) : p \in Points}

BadSigHexes ==
    {BadDigit(hexEncode(Marshal(1, BLSSignatureLength))),
     GenerateKeyPair(1).pub}

SigHexes ==
    PointHexes \cup BadSigHexes
      \cup {<<>>, hexEncode(Marshal(GroupOrder, BLSSignatureLength))}

ListSigHexes == PointHexes \cup BadSigHexes

(***************************** the calls ***********************************)
\* The functions keep no state between calls: a behaviour is one call.
\* Init draws the function called and its arguments, the action of that
\* function runs it and records what it returned.
args == <<op, privKeyHex, pubKeyHex, sigHex, msg, sigHexes,
          aggregateSigHex, pubKeyHexes>>

Init ==
    /\ pc = "call"
    /\ ret = Returned(<<>>, FALSE, "nil")
    /\ op \in {"GenerateKeyPair", "GenerateSignature", "AggregateSignatures",
               "VerifySignature", "VerifyAggregateSignature"}
    /\ privKeyHex \in IF op = "GenerateSignature" THEN PrivKeyHexes ELSE {<<>>}
    /\ pubKeyHex \in IF op = "VerifySignature" THEN PubKeyHexes ELSE {<<>>}
    /\ sigHex \in IF op = "VerifySignature" THEN SigHexes ELSE {<<>>}
    /\ msg \in IF op \in {"GenerateSignature", "VerifySignature",
                          "VerifyAggregateSignature"}
               THEN Messages ELSE {<<>>}
    /\ sigHexes \in IF op = "AggregateSignatures"
                    THEN SeqsUpTo(ListSigHexes) ELSE {<<>>}
    /\ aggregateSigHex \in IF op = "VerifyAggregateSignature"
                           THEN ListSigHexes ELSE {<<>>}
    /\ pubKeyHexes \in IF op = "VerifyAggregateSignature"
                       THEN SeqsUpTo(ListPubKeyHexes) ELSE {<<>>}

CallGenerateKeyPair ==
    /\ pc = "call"
    /\ op = "GenerateKeyPair"
    /\ \E rnd \in Points : ret' = GenerateKeyPair(rnd)
    /\ pc' = "return"
    /\ UNCHANGED args

CallGenerateSignature ==
    /\ pc = "call"
    /\ op = "GenerateSignature"
    /\ ret' = GenerateSignature(privKeyHex, msg)
    /\ pc' = "return"
    /\ UNCHANGED args

CallAggregateSignatures ==
    /\ pc = "call"
    /\ op = "AggregateSignatures"
    /\ ret' = AggregateSignatures(sigHexes)
    /\ pc' = "return"
    /\ UNCHANGED args

CallVerifySignature ==
    /\ pc = "call"
    /\ op = "VerifySignature"
    /\ ret' = VerifySignature(pubKeyHex, sigHex, msg)
    /\ pc' = "return"
    /\ UNCHANGED args

CallVerifyAggregateSignature ==
    /\ pc = "call"
    /\ op = "VerifyAggregateSignature"
    /\ ret' = VerifyAggregateSignature(aggregateSigHex, msg, pubKeyHexes)
    /\ pc' = "return"
    /\ UNCHANGED args

Next ==
    \/ CallGenerateKeyPair
    \/ CallGenerateSignature
    \/ CallAggregateSignatures
    \/ CallVerifySignature
    \/ CallVerifyAggregateSignature

Spec == Init /\ [][Next]_vars

(***************************** the claims **********************************)
Done(name) == pc = "return" /\ op = name

\* the call returned (value, nil)
NoError == ~ret.panic /\ ret.err = "nil"

\* the key pair GenerateKeyPair returns when RandKey draws k
PrivOf(k) == GenerateKeyPair(k).str
PubOf(k) == GenerateKeyPair(k).pub

\* s_i = GenerateSignature(k_i, m) and p_i, for the signers ks
SignaturesOf(ks, m) == [i \in 1 .. Len(ks) |-> GenerateSignature(PrivOf(ks[i]), m).str]
PubKeysOf(ks) == [i \in 1 .. Len(ks) |-> PubOf(ks[i])]

WellFormedPrivKey(h) ==
    hexDecode(h).err = "nil" /\ SecretKeyFromBytes(hexDecode(h).bytes).err = "nil"
WellFormedPubKey(h) ==
    hexDecode(h).err = "nil" /\ PublicKeyFromBytes(hexDecode(h).bytes).err = "nil"
WellFormedSignature(h) == parseSignature(h).err = "nil"

\* the arguments of the call are an aggregate of signatures of msg by the
\* signers ks and the public keys of those signers
HomogeneousAggregate(ks) ==
    /\ Len(ks) = Len(pubKeyHexes)
    /\ pubKeyHexes = PubKeysOf(ks)
    /\ aggregateSigHex = AggregateSignatures(SignaturesOf(ks, msg)).str

\* C1: the aggregate of the signatures of n >= 1 signers on one message of
\* at most 32 bytes verifies against the list of their public keys:
\* VerifyAggregateSignature returns (true, nil).
C1_HomogeneousAggregateVerifies ==
    (/\ Done("VerifyAggregateSignature")
     /\ Len(msg) <= 32
     /\ Len(pubKeyHexes) >= 1
     /\ \E ks \in [1 .. Len(pubKeyHexes) -> ListKeys] : HomogeneousAggregate(ks))
    => (NoError /\ ret.ok)

\* C2: a signature made by GenerateSignature with the secret key of a
\* generated key pair, on a message of at most 32 bytes, verifies under
\* the public key of the pair: VerifySignature returns (true, nil).
C2_SignVerifySound ==
    (/\ Done("VerifySignature")
     /\ Len(msg) <= 32
     /\ \E k \in Scalars :
           /\ pubKeyHex = PubOf(k)
           /\ sigHex = GenerateSignature(PrivOf(k), msg).str)
    => (NoError /\ ret.ok)

C2_Witness ==
    /\ Done("VerifySignature")
    /\ Len(msg) = 32
    /\ pubKeyHex = PubOf(2)
    /\ sigHex = GenerateSignature(PrivOf(2), msg).str
    /\ ret.ok

\* C3: AggregateSignatures of no signatures and VerifyAggregateSignature
\* with no public keys return an error; neither returns a value with a nil
\* error, neither panics.
C3_EmptyInputRejected ==
    /\ (Done("AggregateSignatures") /\ sigHexes = <<>>)
          => (~ret.panic /\ ret.err # "nil")
    /\ (Done("VerifyAggregateSignature") /\ pubKeyHexes = <<>>)
          => (~ret.panic /\ ret.err # "nil")

\* C4: for sig = GenerateSignature(sk, m), VerifySignature under another
\* well-formed public key, or on another message (both at most 32 bytes,
\* also one that differs only by trailing zero bytes), returns (false, nil).
C4_NegativeVerificationIsFalse ==
    (/\ Done("VerifySignature")
     /\ Len(msg) <= 32
     /\ WellFormedPubKey(pubKeyHex)
     /\ \E k \in Scalars, m \in Messages :
           /\ Len(m) <= 32
           /\ sigHex = GenerateSignature(PrivOf(k), m).str
           /\ \/ pubKeyHex # PubOf(k) /\ msg = m
              \/ pubKeyHex = PubOf(k) /\ msg # m)
    => (NoError /\ ~ret.ok)

Injective(f) == \A i, j \in DOMAIN f : f[i] = f[j] => i = j

\* C6: AggregateSignatures of a nonempty list of well-formed signatures
\* returns the same string for every permutation of the list, and for the
\* aggregate of the aggregates of a prefix and the remaining suffix.
C6_AggregationOrderIndependent ==
    (/\ Done("AggregateSignatures")
     /\ sigHexes # <<>>
     /\ \A i \in 1 .. Len(sigHexes) : WellFormedSignature(sigHexes[i]))
    => LET n == Len(sigHexes) IN
       /\ NoError
       /\ \A f \in [1 .. n -> 1 .. n] :
             Injective(f)
             => AggregateSignatures([i \in 1 .. n |-> sigHexes[f[i]]]) = ret
       /\ \A j \in 1 .. (n - 1) :
             AggregateSignatures(
                 << AggregateSignatures(SubSeq(sigHexes, 1, j)).str,
                    AggregateSignatures(SubSeq(sigHexes, j + 1, n)).str >>) = ret

C6_Witness ==
    /\ Done("AggregateSignatures")
    /\ Len(sigHexes) = 3
    /\ sigHexes[1] # sigHexes[2]
    /\ sigHexes[2] # sigHexes[3]
    /\ sigHexes[1] # sigHexes[3]
    /\ NoError
    /\ WellFormedSignature(ret.str)

\* the secret key of a well-formed public key string
KeyOf(h) == CHOOSE k \in Scalars : PubOf(k) = h

\* the call verifies the aggregate of the signers ks on msg against their
\* public keys with the i-th one replaced by a well-formed public key of
\* none of the signers
TamperedAggregate(ks, i) ==
    /\ aggregateSigHex = AggregateSignatures(SignaturesOf(ks, msg)).str
    /\ WellFormedPubKey(pubKeyHexes[i])
    /\ \A j \in 1 .. Len(ks) : pubKeyHexes[i] # PubOf(ks[j])
    /\ \A j \in 1 .. Len(ks) : j # i => pubKeyHexes[j] = PubOf(ks[j])

TamperedCall ==
    /\ Done("VerifyAggregateSignature")
    /\ Len(msg) <= 32
    /\ Len(pubKeyHexes) >= 1
    /\ \A j \in 1 .. Len(pubKeyHexes) : WellFormedPubKey(pubKeyHexes[j])
    /\ \E i \in 1 .. Len(pubKeyHexes), ki \in Scalars :
          TamperedAggregate([j \in 1 .. Len(pubKeyHexes) |->
                               IF j = i THEN ki ELSE KeyOf(pubKeyHexes[j])], i)

\* C7: with one public key of a homogeneous aggregate replaced by a
\* well-formed public key of none of the signers, VerifyAggregateSignature
\* returns (false, nil).
C7_TamperDetected == TamperedCall => (NoError /\ ~ret.ok)

C7_Witness ==
    /\ TamperedCall
    /\ Len(pubKeyHexes) = 3
    /\ pubKeyHexes[2] # pubKeyHexes[3]
    /\ NoError
    /\ ~ret.ok

\* C8: the digest signed is the first min(len(msg), 32) bytes of the
\* message followed by zero bytes; GenerateSignature with a well-formed
\* secret key never fails, whatever the length of the message, and returns
\* the same signature for messages that agree on their first 32 bytes.
C8_SigningTruncates ==
    (/\ Done("GenerateSignature")
     /\ WellFormedPrivKey(privKeyHex))
    => /\ NoError
       /\ Len(msgBytes(msg)) = 32
       /\ \A i \in 1 .. 32 :
             msgBytes(msg)[i] = IF i <= Len(msg) THEN msg[i] ELSE 0
       /\ \A m \in Messages :
             (\A i \in 1 .. 32 : (i <= Len(m) \/ i <= Len(msg))
                                   => (/\ i <= Len(m)
                                       /\ i <= Len(msg)
                                       /\ m[i] = msg[i]))
             => GenerateSignature(privKeyHex, m) = ret

C8_Witness ==
    /\ Done("GenerateSignature")
    /\ WellFormedPrivKey(privKeyHex)
    /\ Len(msg) = 33
    /\ msg[33] = 98
    /\ NoError
    /\ ret = GenerateSignature(privKeyHex, Rep(97, 32))
    /\ ret # GenerateSignature(privKeyHex, Rep(97, 31) \o <<98>>)

\* C9: VerifyAggregateSignature returns an error, never a verdict with a
\* nil error, when the aggregate signature string or any public key of the
\* list fails to decode or deserialise.
C9_MalformedAggregateInputIsError ==
    (/\ Done("VerifyAggregateSignature")
     /\ \/ ~WellFormedSignature(aggregateSigHex)
        \/ \E i \in 1 .. Len(pubKeyHexes) : ~WellFormedPubKey(pubKeyHexes[i]))
    => (~ret.panic /\ ret.err # "nil")

WellFormedAggregateCall ==
    /\ Done("VerifyAggregateSignature")
    /\ Len(msg) <= 32
    /\ Len(pubKeyHexes) >= 1
    /\ WellFormedSignature(aggregateSigHex)
    /\ \A i \in 1 .. Len(pubKeyHexes) : WellFormedPubKey(pubKeyHexes[i])

\* C10: for well-formed arguments, a nonempty key list and a message of at
\* most 32 bytes, VerifyAggregateSignature returns true exactly when
\* VerifySignature of the aggregate signature and the message returns true
\* under every public key of the list.
C10_AggregateVerifyIsEveryKeyVerify ==
    WellFormedAggregateCall
    => /\ NoError
       /\ ret.ok <=> \A i \in 1 .. Len(pubKeyHexes) :
                        LET one == VerifySignature(pubKeyHexes[i], aggregateSigHex, msg)
                        IN  one.err = "nil" /\ one.ok

C10_Witness ==
    /\ WellFormedAggregateCall
    /\ Len(pubKeyHexes) = 3
    /\ ret.ok
====
